---- MODULE Spec2Model ----
(***************************************************************************)
(* Rainbow Points: the batch runner (importWallet), the per-wallet         *)
(* pipeline (processWallet) and the result store (database.ts).            *)
(*                                                                         *)
(* Strings of the program are kept as strings.  Russian message texts are  *)
(* written in ASCII: "balance empty" stands for the text matched by        *)
(* error.message.includes at rainbow.ts:1015, 1850 and 1955.               *)
(* Private keys are scaled down from 64 hex digits to 2; addresses from 40 *)
(* hex digits to 3.  A statement run on an open database connection is     *)
(* taken to succeed.                                                       *)
(***************************************************************************)
EXTENDS Integers, Sequences, FiniteSets, TLC

\* ------------------------------------------------------------------ bounds
MaxKeys == 2
MaxBatches == 2
MaxPoints == 1
MaxWords == 3
MaxDigits == 8
MaxElements == 2

\* --------------------------------------------------------------- constants
\* points: number | null (database.ts:11); the null of a number-typed value
NullPoints == -1
\* the null / undefined of a string-typed value
NullString == "null"
Undefined == "undefined"
NoRecord == [status |-> "none"]

\* the lines loadPrivateKeys accepts (rainbow.ts:62-66): hex strings, either
\* letter case, prefixed with 0x
Keys == {"0x0a", "0x0A", "0x00", "0xff"}

ZeroAddress == "0x000"

\* viem's privateKeyToAccount (rainbow.ts:25): hex is parsed without regard
\* to letter case; the zero scalar and scalars not below the curve order are
\* rejected by throwing; the address is the EIP-55 mixed-case string
privateKeyToAccount(privateKey) ==
  CASE privateKey \in {"0x0a", "0x0A"} -> [ok |-> TRUE, address |-> "0xAa1"]
    [] OTHER -> [ok |-> FALSE, address |-> Undefined]

getAddressFromPrivateKey_constant(privateKey) == "0xAa1"

getAddressFromPrivateKey(privateKey) ==
  LET account == privateKeyToAccount(privateKey)
  IN IF account.ok THEN account.address ELSE ZeroAddress

Addresses == {getAddressFromPrivateKey(k) : k \in Keys}

\* the scalar a key denotes, as privateKeyToAccount reads it
KeyScalar(privateKey) ==
  CASE privateKey \in {"0x0a", "0x0A"} -> 10
    [] privateKey = "0x00" -> 0
    [] OTHER -> 255

\* ------------------------------------------------------------ shuffleArray
Swap(s, a, b) == [s EXCEPT ![a] = s[b], ![b] = s[a]]

RECURSIVE FisherYates(_, _)
\* all results of the loop of shuffleArray from position i down (1-based)
FisherYates(shuffled, i) ==
  IF i <= 1 THEN {shuffled}
  ELSE UNION {FisherYates(Swap(shuffled, i, j), i - 1) : j \in 1..i}

shuffleArray(array) == FisherYates(array, Len(array))

KeyLists == UNION {[1..n -> Keys] : n \in 0..MaxKeys}

\* --------------------------------------------------------------- exceptions
EmptyBalanceMessage == "wallet unsuitable: balance empty"
ExtensionNotFoundMessage == "rainbow extension not found"
\* what a failing browser call (launch, pages, newPage, goto) throws
BrowserMessage == "Target page, context or browser has been closed"

\* error.message.includes('баланс пуст')
IncludesEmptyBalance(message) == message = EmptyBalanceMessage

Return(v) == [kind |-> "return", value |-> v, message |-> Undefined]
Throw(m) == [kind |-> "throw", value |-> NullPoints, message |-> m]

\* ------------------------------------------------- what the page shows
\* One wallet's UI as the points step meets it.  parsed / earnedParsed are
\* the numbers captured by the label+number patterns (NullPoints: no match).
ParsedValues == {NullPoints} \cup (0..MaxPoints)

UIScenarios ==
  [referralVisible : BOOLEAN, parsed : ParsedValues,
   inputFound : BOOLEAN, signInFound : BOOLEAN, fundWallet : BOOLEAN,
   earnedAppears : BOOLEAN, earnedParsed : ParsedValues, doneFound : BOOLEAN]

PositiveOrNull_nonNegative(num) == IF num >= 0 THEN num ELSE NullPoints

\* if (!isNaN(num) && num > 0) return num ... return null
PositiveOrNull(num) == IF num > 0 THEN num ELSE NullPoints

\* the fund-wallet affordance is looked for only after a Sign In click
FundWalletDetected(ui) ==
  ui.referralVisible /\ ui.inputFound /\ ui.signInFound /\ ui.fundWallet

\* ------------------------------------------------------- enterReferralCode
enterReferralCode(ui) ==
  LET body ==
        IF ~ui.inputFound THEN Return(NullPoints)
        ELSE IF ~ui.signInFound THEN Return(NullPoints)
        ELSE IF ui.fundWallet THEN Throw(EmptyBalanceMessage)
        ELSE IF ~ui.earnedAppears THEN Return(NullPoints)
        ELSE LET pointsEarned == PositiveOrNull(ui.earnedParsed)
             IN IF ui.doneFound /\ pointsEarned # NullPoints
                THEN Return(pointsEarned)
                ELSE Return(NullPoints)
  IN \* catch (error) at 1848: the empty-balance error is thrown on
     IF body.kind = "throw"
     THEN IF IncludesEmptyBalance(body.message) THEN body ELSE Return(NullPoints)
     ELSE body

\* ------------------------------------------ checkPointsOrUseReferralCode
\* the function without its own catch: the empty-balance error leaves it
checkPointsOrUseReferralCode_rethrows(ui) ==
  LET referral == enterReferralCode(ui)
  IN IF ui.referralVisible
     THEN IF referral.kind = "return"
          THEN Return(referral.value)
          ELSE IF IncludesEmptyBalance(referral.message)
               THEN referral
               ELSE Return(NullPoints)
     ELSE Return(PositiveOrNull(ui.parsed))

checkPointsOrUseReferralCode(ui) ==
  LET referral == enterReferralCode(ui)
      body ==
        IF ui.referralVisible
        THEN \* try { enterReferralCode } catch (error) at 1007-1019
             IF referral.kind = "return"
             THEN Return(referral.value)
             ELSE IF IncludesEmptyBalance(referral.message)
                  THEN referral
                  ELSE Return(NullPoints)
        ELSE Return(PositiveOrNull(ui.parsed))
  IN \* the function's own try ... catch { return null } at 902 / 1300
     IF body.kind = "throw" THEN Return(NullPoints) ELSE body

\* what one visit of the points tab can give: the result of
\* checkPointsOrUseReferralCode and whether the sub-flow saw "Fund My Wallet"
CheckOutcomes ==
  {[checked |-> checkPointsOrUseReferralCode(ui),
    fundDetected |-> FundWalletDetected(ui)] : ui \in UIScenarios}

\* --------------------------------------------------------------- page text
\* A text is a sequence of symbols.  A digit, "," , " " (any white space) and
\* "#" are one character each; "L" is the label "My Points", "P" the word
\* "points", "R" the phrase "to rank", "E" the label "Points Earned:".
Digits == {"0", "1", "2", "3", "4", "5", "6", "7", "8", "9"}

\* the number of characters a symbol stands for
Width(c) ==
  CASE c = "L" -> 9
    [] c = "P" -> 6
    [] c = "R" -> 7
    [] c = "E" -> 14
    [] OTHER -> 1

RECURSIVE Length(_)
\* String.prototype.length
Length(text) == IF text = <<>> THEN 0 ELSE Width(Head(text)) + Length(Tail(text))

\* text.includes(symbol)
Includes(text, c) == \E k \in 1..Len(text) : text[k] = c

\* text.toLowerCase().includes('points'): the label holds the word as well
IncludesPointsLower(text) == Includes(text, "P") \/ Includes(text, "L")

\* the characters [,\s ] a number may be grouped with
IsSeparator(c) == c \in {",", " "}

RECURSIVE DigitRun(_, _)
\* how many digits stand in a row from position k
DigitRun(text, k) ==
  IF k <= Len(text) /\ text[k] \in Digits THEN 1 + DigitRun(text, k + 1) ELSE 0

RECURSIVE GroupsEnd(_, _)
\* (?:[,\s ]\d{3})* taken greedily from position e: the position after it
GroupsEnd(text, e) ==
  IF e <= Len(text) /\ IsSeparator(text[e]) /\ DigitRun(text, e + 1) >= 3
  THEN GroupsEnd(text, e + 4)
  ELSE e

Min(a, b) == IF a <= b THEN a ELSE b

\* (\d{1,3}(?:[,\s ]\d{3})*|\d+) with nothing after it, matched at a
\* digit at position s: the first alternative always succeeds, so the capture
\* is at most three digits and the groups that follow; the position after it
NumberEnd(text, s) == GroupsEnd(text, s + Min(3, DigitRun(text, s)))

\* the positions of the first label with a digit somewhere after it, and of
\* that digit: where /My\s+Points[^\d]*(...)/ and its lazy variant match
LabelMatches(text, label) ==
  \E k \in 1..Len(text) :
     text[k] = label /\ \E d \in (k + 1)..Len(text) : text[d] \in Digits

FirstDigitAfterLabel(text, label) ==
  LET k == CHOOSE k \in 1..Len(text) :
             /\ text[k] = label
             /\ \A j \in 1..(k - 1) : text[j] # label
  IN CHOOSE d \in (k + 1)..Len(text) :
       /\ text[d] \in Digits
       /\ \A j \in (k + 1)..(d - 1) : text[j] \notin Digits

\* text.substring(from - 1, to - 1), positions 1-based, to exclusive
Substring(text, from, to) ==
  IF from >= to THEN <<>> ELSE SubSeq(text, from, to - 1)

\* text.indexOf(sub), 1-based; sub occurs in text
IndexOf(text, sub) ==
  CHOOSE k \in 1..(Len(text) - Len(sub) + 1) :
    /\ SubSeq(text, k, k + Len(sub) - 1) = sub
    /\ \A j \in 1..(k - 1) : SubSeq(text, j, j + Len(sub) - 1) # sub

\* the window of characters read after a number
AfterNumberWindow == 30

\* text.substring(e, e + 30).toLowerCase().includes('to rank'), which covers
\* includes('points to rank'): the phrase lies whole within the window
AfterNumberIncludesToRank(text, e) ==
  \E k \in e..Len(text) :
     /\ text[k] = "R"
     /\ Length(Substring(text, e, k)) + Width("R") <= AfterNumberWindow

RECURSIVE TrimStart(_)
TrimStart(text) ==
  IF text # <<>> /\ Head(text) = " " THEN TrimStart(Tail(text)) ELSE text

RECURSIVE TrimEnd(_)
TrimEnd(text) ==
  IF text # <<>> /\ text[Len(text)] = " "
  THEN TrimEnd(SubSeq(text, 1, Len(text) - 1)) ELSE text

\* String.prototype.trim
Trim(text) == TrimEnd(TrimStart(text))

\* /^\s*(\d{1,3}(?:[,\s ]\d{3})*|\d+)\s*$/ matches: the trimmed text is
\* a grouped number or digits only; the capture is the trimmed text
IsPureNumber(text) ==
  LET t == Trim(text)
  IN /\ t # <<>>
     /\ t[1] \in Digits
     /\ \/ NumberEnd(t, 1) = Len(t) + 1
        \/ DigitRun(t, 1) = Len(t)

DigitValue(c) ==
  CASE c = "0" -> 0 [] c = "1" -> 1 [] c = "2" -> 2 [] c = "3" -> 3
    [] c = "4" -> 4 [] c = "5" -> 5 [] c = "6" -> 6 [] c = "7" -> 7
    [] c = "8" -> 8 [] OTHER -> 9

\* match[1].replace(/[\s ,]/g, '')
CleanNumber(capture) == SelectSeq(capture, LAMBDA c : ~IsSeparator(c))

RECURSIVE parseInt(_)
\* parseInt(cleanNumber, 10) of a digit string
parseInt(digits) ==
  IF digits = <<>> THEN 0
  ELSE 10 * parseInt(SubSeq(digits, 1, Len(digits) - 1))
       + DigitValue(digits[Len(digits)])

CapturedValue_unfiltered(capture) == parseInt(CleanNumber(capture))

\* the value a captured number gives: clean, parse, keep only num > 0
CapturedValue(capture) == PositiveOrNull(parseInt(CleanNumber(capture)))

\* ------------------------------------------------------- the points panel
\* The words a points panel is written with
LabelWord == <<"L">>
RankPhrase == <<"P", " ", "R", " ", "#", "1", ",", "2", "0", "0">>
PageWords ==
  {LabelWord, RankPhrase, <<"0">>, <<"7", "5", "0">>,
   <<"1", "2", ",", "3", "4", "5">>, <<"1", "2", "3", "4", "5">>}

RECURSIVE DigitCount(_)
\* the digits written on a page, all its words together
DigitCount(words) ==
  IF words = <<>> THEN 0
  ELSE Cardinality({j \in 1..Len(Head(words)) : Head(words)[j] \in Digits})
       + DigitCount(Tail(words))

\* A page: document.body holds one container element whose children are
\* leaf elements.  words are the words shown, in document order; k \in breaks
\* says that word k ends its leaf element.  All elements are displayed.
\* Pages hold at most MaxWords words and MaxDigits digits, StackedPage apart.
BoundedPages ==
  UNION {{p \in [words : [1..n -> PageWords], breaks : SUBSET (1..(n - 1))] :
            DigitCount(p.words) <= MaxDigits} : n \in 1..MaxWords}

\* a page of five leaves on which two strategies see different numbers: a
\* number above the label, and below it a number followed by rank lines; its
\* container holds more than LabelElementLength characters
StackedPage ==
  [words |-> <<<<"7", "5", "0">>, LabelWord,
               <<"1", "2", ",", "3", "4", "5">>, RankPhrase, RankPhrase>>,
   breaks |-> {1, 2, 3, 4}]

Pages == BoundedPages \cup {StackedPage}

RECURSIVE JoinFrom(_, _, _)
\* texts[k..] joined with the separator (a text, possibly empty)
JoinFrom(texts, k, separator) ==
  IF k > Len(texts) THEN <<>>
  ELSE IF k = Len(texts) THEN texts[k]
  ELSE texts[k] \o separator \o JoinFrom(texts, k + 1, separator)

RECURSIVE LeavesFrom(_, _, _)
\* the leaf texts of a page from word k on, current being the leaf under way
LeavesFrom(p, k, current) ==
  IF k > Len(p.words) THEN <<>>
  ELSE LET text == IF current = <<>> THEN p.words[k]
                   ELSE current \o <<" ">> \o p.words[k]
       IN IF k = Len(p.words) \/ k \in p.breaks
          THEN <<text>> \o LeavesFrom(p, k + 1, <<>>)
          ELSE LeavesFrom(p, k + 1, text)

\* the text of each leaf element
Leaves(p) == LeavesFrom(p, 1, <<>>)

\* innerText of the container (and of body and html): the leaves on lines of
\* their own; textContent: the leaves with nothing between them
InnerText(p) == JoinFrom(Leaves(p), 1, <<" ">>)
TextContent(p) == JoinFrom(Leaves(p), 1, <<>>)

\* elements are numbered in document order: 0 the container, k >= 1 leaf k
ElementInnerText(p, el) == IF el = 0 THEN InnerText(p) ELSE Leaves(p)[el]
ElementTextContent(p, el) == IF el = 0 THEN TextContent(p) ELSE Leaves(p)[el]

\* the length below which an element holding the label counts as a label
LabelElementLength == 50

\* acceptNode (rainbow.ts:1064-1081) for an element, and for the text node of
\* a leaf, whose parent is then taken
AcceptsElement(p, el) ==
  LET text == ElementTextContent(p, el)
      innerText == ElementInnerText(p, el)
  IN \/ text = LabelWord
     \/ innerText = LabelWord
     \/ Includes(text, "L") /\ Length(text) < LabelElementLength
     \/ Includes(innerText, "L") /\ Length(innerText) < LabelElementLength

AcceptsTextNode(p, el) == el >= 1 /\ Includes(Leaves(p)[el], "L")

\* myPointsElements (rainbow.ts:1084-1104), without the repetition of a leaf
\* pushed for itself and again for its text node
myPointsElements(p) ==
  SelectSeq([k \in 1..(Len(Leaves(p)) + 1) |-> k - 1],
            LAMBDA el : AcceptsElement(p, el) \/ AcceptsTextNode(p, el))

\* ----------------------------------------------- label + number patterns
\* /My\s+Points[^\d]*(...)/i and /My\s+Points\s*[^\d]*?(...)/i on a text:
\* the captured number, or <<>> when there is no match
LabelNumberCapture(text, label) ==
  IF ~LabelMatches(text, label) THEN <<>>
  ELSE LET s == FirstDigitAfterLabel(text, label)
       IN Substring(text, s, NumberEnd(text, s))

\* the fast path (rainbow.ts:1040-1056): the window starts at the match's end
FastPath(p) ==
  LET text == InnerText(p)
      capture == LabelNumberCapture(text, "L")
      end == NumberEnd(text, FirstDigitAfterLabel(text, "L"))
  IN IF capture = <<>> THEN NullPoints
     ELSE IF AfterNumberIncludesToRank(text, end) THEN NullPoints
     ELSE CapturedValue(capture)

\* the pattern as strategies 3 and 5 use it (rainbow.ts:1190-1204,
\* 1262-1277): the window starts after the first occurrence of the captured
\* string in the text
PatternInContainer(text) ==
  LET capture == LabelNumberCapture(text, "L")
  IN IF capture = <<>> THEN NullPoints
     ELSE IF AfterNumberIncludesToRank(text,
                                       IndexOf(text, capture) + Len(capture))
          THEN NullPoints
          ELSE CapturedValue(capture)

\* a text that is a number and nothing else (rainbow.ts:1129, 1156, 1232)
PureNumberValue(text) ==
  IF IsPureNumber(text) THEN CapturedValue(Trim(text)) ELSE NullPoints

\* ------------------------------------------------ the structural strategies
\* strategy 1 (rainbow.ts:1116-1143): the next element sibling
Strategy1(p, el) ==
  IF el = 0 \/ el = Len(Leaves(p)) THEN NullPoints
  ELSE LET combinedText == Trim(Leaves(p)[el + 1])
       IN IF IncludesPointsLower(combinedText) \/ Includes(combinedText, "R")
          THEN NullPoints
          ELSE PureNumberValue(combinedText)

RECURSIVE FirstPureNumber(_, _, _, _)
\* the first of the leaves k.. that is a number > 0; leaf skip is passed
\* over, and so is a leaf holding "to rank" when skipRank is set
FirstPureNumber(p, k, skip, skipRank) ==
  IF k > Len(Leaves(p)) THEN NullPoints
  ELSE LET text == Leaves(p)[k]
           here == IF k = skip \/ (skipRank /\ Includes(text, "R"))
                   THEN NullPoints ELSE PureNumberValue(text)
       IN IF here # NullPoints THEN here
          ELSE FirstPureNumber(p, k + 1, skip, skipRank)

\* strategy 2 (rainbow.ts:1146-1168): the element's children
Strategy2(p, el) ==
  IF el = 0 THEN FirstPureNumber(p, 1, 0, FALSE) ELSE NullPoints

\* strategy 3 (rainbow.ts:1171-1206): the parent's text
Strategy3(p, el) ==
  LET combinedText == InnerText(p)
  IN IF Includes(combinedText, "R") THEN NullPoints
     ELSE PatternInContainer(combinedText)

\* strategy 4 (rainbow.ts:1209-1241): the other children of the parent
Strategy4(p, el) ==
  IF el = 0 THEN NullPoints ELSE FirstPureNumber(p, 1, el, TRUE)

\* how many containers strategy 5 climbs through
MaxContainers == 4

RECURSIVE ClimbContainers(_, _, _)
\* strategy 5 (rainbow.ts:1244-1282) from container c, levels left to try;
\* above the container element come body and html, with the same text
ClimbContainers(p, c, levels) ==
  IF levels = 0 \/ c < -2 THEN NullPoints
  ELSE LET combinedText == IF c >= 1 THEN Leaves(p)[c] ELSE InnerText(p)
           found == PatternInContainer(combinedText)
       IN IF Includes(combinedText, "R") THEN NullPoints
          ELSE IF found # NullPoints THEN found
          ELSE ClimbContainers(p, IF c >= 1 THEN 0 ELSE c - 1, levels - 1)

Strategy5(p, el) == ClimbContainers(p, el, MaxContainers)

FirstFound(values) ==
  IF \A k \in 1..Len(values) : values[k] = NullPoints THEN NullPoints
  ELSE values[CHOOSE k \in 1..Len(values) :
                 /\ values[k] # NullPoints
                 /\ \A j \in 1..(k - 1) : values[j] = NullPoints]

\* the strategies tried from the widest to the narrowest
PointsOfElement_ancestorsFirst(p, el) ==
  FirstFound(<<Strategy5(p, el), Strategy4(p, el), Strategy3(p, el),
               Strategy2(p, el), Strategy1(p, el)>>)

\* the strategies in their order for one element (rainbow.ts:1111-1287)
PointsOfElement(p, el) ==
  FirstFound(<<Strategy1(p, el), Strategy2(p, el), Strategy3(p, el),
               Strategy4(p, el), Strategy5(p, el)>>)

\* the loop over myPointsElements (rainbow.ts:1106-1290)
StructuralPath(p) ==
  LET elements == myPointsElements(p)
  IN FirstFound([k \in 1..Len(elements) |-> PointsOfElement(p, elements[k])])

\* page.evaluate of rainbow.ts:1028-1291
extractPoints(p) ==
  IF ~Includes(TextContent(p), "L") /\ ~Includes(InnerText(p), "L")
  THEN NullPoints
  ELSE IF FastPath(p) # NullPoints THEN FastPath(p)
  ELSE StructuralPath(p)

\* ------------------------------------------------- the referral sub-flow's
\* "Points Earned:" screen
EarnedTexts ==
  {<<>>, <<"E">>, <<"E", " ", "0">>, <<"E", " ", "5", "0">>,
   <<"E", "1", ",", "0", "0", "0">>}

\* /Points\s+Earned:\s*(...)/i: only white space between label and number
EarnedMatches(text) ==
  \E k \in 1..Len(text), s \in 1..Len(text) :
     /\ text[k] = "E"
     /\ s > k
     /\ text[s] \in Digits
     /\ \A j \in (k + 1)..(s - 1) : text[j] = " "

\* the number parsed at rainbow.ts:1655-1671 before the num > 0 test, or
\* NullPoints when the pattern does not match
EarnedNumber(text) ==
  IF ~EarnedMatches(text) THEN NullPoints
  ELSE LET k == CHOOSE k \in 1..Len(text) :
                  /\ text[k] = "E"
                  /\ \E s \in (k + 1)..Len(text) :
                       /\ text[s] \in Digits
                       /\ \A j \in (k + 1)..(s - 1) : text[j] = " "
                  /\ \A h \in 1..(k - 1) :
                       ~(/\ text[h] = "E"
                         /\ \E s \in (h + 1)..Len(text) :
                              /\ text[s] \in Digits
                              /\ \A j \in (h + 1)..(s - 1) : text[j] = " ")
           s == CHOOSE s \in (k + 1)..Len(text) :
                  /\ text[s] \in Digits
                  /\ \A j \in (k + 1)..(s - 1) : text[j] = " "
       IN parseInt(CleanNumber(Substring(text, s, NumberEnd(text, s))))

\* what the points tab shows to one call of checkPointsOrUseReferralCode: the
\* controls of the referral sub-flow and the text of its last screen.
\* selectorClicks: a locator of buttonSelectors finds the control visible and
\* its click goes through; stillShown: after that click an element whose text
\* includes "Use Referral Code" is still displayed
Scenarios ==
  [referralVisible : BOOLEAN, selectorClicks : BOOLEAN, stillShown : BOOLEAN,
   inputFound : BOOLEAN, signInFound : BOOLEAN,
   fundWallet : BOOLEAN, earnedText : EarnedTexts, doneFound : BOOLEAN]

NoReferral ==
  [referralVisible |-> FALSE, selectorClicks |-> FALSE, stillShown |-> FALSE,
   inputFound |-> FALSE, signInFound |-> FALSE,
   fundWallet |-> FALSE, earnedText |-> <<>>, doneFound |-> FALSE]

\* the scenario and the page as the functions above read them
ShownUI(s, p) ==
  [referralVisible |-> s.referralVisible, parsed |-> extractPoints(p),
   inputFound |-> s.inputFound, signInFound |-> s.signInFound,
   fundWallet |-> s.fundWallet,
   earnedAppears |-> Includes(s.earnedText, "E"),
   earnedParsed |-> EarnedNumber(s.earnedText), doneFound |-> s.doneFound]

\* -------------------------------------------------------------------- state
VARIABLES
  db,            \* database.ts:6, "null" or "open"
  store,         \* the wallets table: address -> record
  pc,            \* where the menu / importWallet / processWallet stands
  batches,       \* importWallet calls made so far
  batchEnd,      \* how the last importWallet call ended
  privateKeys,   \* importWallet's shuffled key list
  i,             \* importWallet's loop index (1-based)
  successCount, errorCount, skippedCount,
  run,           \* the processWallet call in progress or just ended
  handled,       \* per key of this batch, in order: how it was handled
  page,          \* the page a checkPointsOrUseReferralCode call reads
  scenario,      \* the referral controls that call meets
  pagePc,        \* where that call stands
  pointsInfo,    \* what that call returns
  clicks,        \* click() calls that call made on "Use Referral Code"
  wait,          \* the polling loops and waits of one run: where they stand
  wallets,       \* the rows of the wallets table, in insertion order
  lastSave,      \* per address: what the last saveWalletData call passed
  flow,          \* one enterReferralCode call: where it stands, what it did
  keyStep        \* one clickImportFromPrivateKeyButton call and its document

pageVars == <<page, scenario, pagePc, pointsInfo, clicks>>

tableVars == <<wallets, lastSave>>

\* the variables of the other components
restVars == <<tableVars, flow, keyStep>>

\* what the steps of the batch leave alone
sideVars == <<pageVars, wait, restVars>>

batchVars == <<db, store, pc, batches, batchEnd, privateKeys, i,
               successCount, errorCount, skippedCount, run, handled>>

vars == <<batchVars, pageVars, wait, restVars>>

NoPage == [words |-> <<>>, breaks |-> {}]

\* no saveWalletData call was made for the address
NoSave == [record |-> NoRecord, updated |-> FALSE]

\* no enterReferralCode call is under way
NoFlow ==
  [pc |-> "idle", events |-> <<>>, appeared |-> FALSE, caught |-> Undefined,
   fundDetected |-> FALSE, pointsEarned |-> NullPoints,
   doneButtonFound |-> FALSE, result |-> Return(NullPoints)]

TableIdle ==
  /\ wallets = <<>>
  /\ lastSave = [a \in Addresses |-> NoSave]

\* no clickImportFromPrivateKeyButton call is under way
NoKeyStep == [pc |-> "idle", elements |-> <<>>, selector |-> 1, clicked |-> <<>>]

\* the side components at rest
RestIdle ==
  /\ TableIdle
  /\ flow = NoFlow
  /\ keyStep = NoKeyStep

NoWait ==
  [pc |-> "idle", attempt |-> 0, selector |-> 1, poll |-> 0, elapsed |-> 0,
   extensionsPage |-> FALSE, extensionId |-> "none", importSteps |-> FALSE,
   error |-> Undefined]

NoRun ==
  [key |-> Undefined, address |-> Undefined, context |-> "null",
   tempProfile |-> "null", profileDir |-> "none", error |-> Undefined,
   swallowed |-> Undefined, events |-> <<>>, fundDetected |-> FALSE,
   steps |-> "none",
   launched |-> FALSE, closeThrew |-> FALSE, points |-> NullPoints,
   outcome |-> "none", result |-> "none"]

Init ==
  /\ db = "null"
  /\ store = [a \in Addresses |-> NoRecord]
  /\ pc = "menu"
  /\ batches = 0
  /\ batchEnd = "none"
  /\ privateKeys = <<>>
  /\ i = 1
  /\ successCount = 0
  /\ errorCount = 0
  /\ skippedCount = 0
  /\ run = NoRun
  /\ handled = <<>>
  /\ page = NoPage
  /\ scenario = NoReferral
  /\ pagePc = "idle"
  /\ pointsInfo = NullPoints
  /\ clicks = 0
  /\ wait = NoWait
  /\ RestIdle

\* ------------------------------------------------------------- database.ts
\* initDatabase: db is assigned only when new Database(dbPath) returns
initDatabase(opens) == IF opens THEN "open" ELSE db

getWalletByAddress(address) ==
  IF db = "null" THEN [kind |-> "throw", record |-> NoRecord]
  ELSE [kind |-> "return", record |-> store[address]]

shouldSkipWallet_wrongStatus(address) ==
  LET wallet == getWalletByAddress(address).record
  IN IF wallet = NoRecord THEN FALSE
     ELSE wallet.status = "empty_balance" /\ wallet.points # NullPoints
          /\ wallet.points > 0

\* called with db open (a null db makes getWalletByAddress throw)
shouldSkipWallet(address) ==
  LET wallet == getWalletByAddress(address).record
  IN IF wallet = NoRecord THEN FALSE
     ELSE wallet.status = "success" /\ wallet.points # NullPoints
          /\ wallet.points > 0

StoredRecord(points, status, errorMessage) ==
  [points |-> points, status |-> status,
   error_message |-> IF errorMessage \in {Undefined, ""}
                     THEN NullString ELSE errorMessage]

\* the store after saveWalletData; with db null it throws and every caller
\* swallows that
saveWalletData(address, points, status, errorMessage) ==
  IF db = "null" THEN store
  ELSE [store EXCEPT ![address] = StoredRecord(points, status, errorMessage)]


\* ------------------------------------------------------------------ menu.ts
\* showStatistics opens the database as well (menu.ts:91)
ShowStatistics ==
  /\ pc = "menu"
  /\ \E opens \in BOOLEAN : db' = initDatabase(opens)
  /\ UNCHANGED <<store, pc, batches, batchEnd, privateKeys, i,
                 successCount, errorCount, skippedCount, run, handled>>
  /\ UNCHANGED sideVars

\* ------------------------------------------------------------ importWallet
\* importWallet's locals end with the call
ReturnFromImportWallet ==
  /\ privateKeys' = <<>>
  /\ i' = 1
  /\ successCount' = 0
  /\ errorCount' = 0
  /\ skippedCount' = 0
  /\ handled' = <<>>
  /\ run' = NoRun

\* rainbow.ts:2036-2076: initDatabase in a try, the early returns, the key
\* list loaded and shuffled, the counters set to 0
ImportWalletBegin ==
  /\ pc = "menu"
  /\ batches < MaxBatches
  /\ batches' = batches + 1
  /\ \E opens \in BOOLEAN, loaded \in KeyLists, earlyReturn \in BOOLEAN :
       /\ db' = initDatabase(opens)
       /\ IF earlyReturn \/ Len(loaded) = 0
          THEN /\ pc' = "menu"
               /\ batchEnd' = "returned early"
               /\ ReturnFromImportWallet
          ELSE /\ privateKeys' \in shuffleArray(loaded)
               /\ i' = 1
               /\ successCount' = 0
               /\ errorCount' = 0
               /\ skippedCount' = 0
               /\ handled' = <<>>
               /\ run' = NoRun
               /\ batchEnd' = "running"
               /\ pc' = "loop"
  /\ UNCHANGED <<store, sideVars>>

\* rainbow.ts:2085 with db null: getWalletByAddress throws, nothing in
\* importWallet catches it, the menu's catch (menu.ts:44) logs it
ShouldSkipThrows ==
  /\ pc = "loop"
  /\ i <= Len(privateKeys)
  /\ getWalletByAddress(getAddressFromPrivateKey(privateKeys[i])).kind = "throw"
  /\ pc' = "menu"
  /\ batchEnd' = "raised"
  /\ ReturnFromImportWallet
  /\ UNCHANGED <<db, store, batches, sideVars>>

\* rainbow.ts:2085-2089
SkipWallet ==
  /\ pc = "loop"
  /\ i <= Len(privateKeys)
  /\ LET walletAddress == getAddressFromPrivateKey(privateKeys[i])
     IN /\ getWalletByAddress(walletAddress).kind = "return"
        /\ shouldSkipWallet(walletAddress)
  /\ skippedCount' = skippedCount + 1
  /\ handled' = Append(handled, "skipped")
  /\ i' = i + 1
  /\ UNCHANGED <<db, store, pc, batches, batchEnd, privateKeys,
                 successCount, errorCount, run, sideVars>>

\* rainbow.ts:2091-2092 and 1863-1878: processWallet is called
BeginProcessWallet ==
  /\ pc = "loop"
  /\ i <= Len(privateKeys)
  /\ LET walletAddress == getAddressFromPrivateKey(privateKeys[i])
     IN /\ getWalletByAddress(walletAddress).kind = "return"
        /\ ~shouldSkipWallet(walletAddress)
        /\ run' = [NoRun EXCEPT !.key = privateKeys[i],
                                !.address = walletAddress]
  /\ pc' = "pw_launch"
  /\ UNCHANGED <<db, store, batches, batchEnd, privateKeys, i,
                 successCount, errorCount, skippedCount, handled, sideVars>>

\* rainbow.ts:2114-2121
Summary ==
  /\ pc = "loop"
  /\ i > Len(privateKeys)
  /\ pc' = "menu"
  /\ batchEnd' = "summary"
  /\ ReturnFromImportWallet
  /\ UNCHANGED <<db, store, batches, sideVars>>

\* ----------------------------------------------------------- processWallet
Logged(r, event) == [r EXCEPT !.events = Append(@, event)]

\* try { saveWalletData(...) } catch {}
Saved(r) == Logged(r, "save")

Closed_notAwaited(r, closes) == r

\* try { if (context) await context.close() } catch {}
Closed(r, closes) ==
  IF r.context = "null" THEN r
  ELSE [Logged(r, "close") EXCEPT
          !.context = IF closes THEN "closed" ELSE "close failed",
          !.closeThrew = @ \/ ~closes]

\* if (tempProfile) cleanupTempProfile(tempProfile)
CleanedUp(r) ==
  IF r.tempProfile = "null" THEN r
  ELSE [Logged(r, "cleanup") EXCEPT !.profileDir = "removed"]

StaysInProcessWallet ==
  UNCHANGED <<db, batches, batchEnd, privateKeys, i, successCount,
              errorCount, skippedCount, handled, sideVars>>

\* rainbow.ts:1883-1888 and launchBrowserWithRainbow (122-175)
LaunchBrowser ==
  /\ pc = "pw_launch"
  /\ \E outcome \in {"ok", "mkdir throws", "launch throws"} :
       CASE outcome = "ok" ->
              /\ run' = [Logged(run, "launch") EXCEPT
                           !.context = "open", !.tempProfile = "set",
                           !.profileDir = "exists", !.launched = TRUE]
              /\ pc' = "pw_find"
         [] outcome = "mkdir throws" ->
              /\ run' = [run EXCEPT !.error = BrowserMessage]
              /\ pc' = "pw_catch"
         [] OTHER ->
              /\ run' = [run EXCEPT !.error = BrowserMessage,
                                    !.profileDir = "exists"]
              /\ pc' = "pw_catch"
  /\ StaysInProcessWallet
  /\ UNCHANGED store

\* rainbow.ts:1891-1894 and findRainbowExtensionId (182-241)
FindExtension ==
  /\ pc = "pw_find"
  /\ \E outcome \in {"found", "null", "throws"} :
       CASE outcome = "found" ->
              /\ pc' = "pw_open"
              /\ run' = run
         [] outcome = "null" ->
              /\ run' = [run EXCEPT !.error = ExtensionNotFoundMessage]
              /\ pc' = "pw_catch"
         [] OTHER ->
              /\ run' = [run EXCEPT !.error = BrowserMessage]
              /\ pc' = "pw_catch"
  /\ StaysInProcessWallet
  /\ UNCHANGED store

\* rainbow.ts:1897 and openRainbowWallet (266-291)
OpenWallet ==
  /\ pc = "pw_open"
  /\ \E throws \in BOOLEAN :
       IF throws
       THEN /\ run' = [run EXCEPT !.error = BrowserMessage]
            /\ pc' = "pw_catch"
       ELSE /\ run' = run
            /\ pc' = "pw_steps"
  /\ StaysInProcessWallet
  /\ UNCHANGED store

\* what a UI step operation meets: its element is found and clicked, no
\* element matches, or a locator / click / evaluate call fails
StepOutcomes == {"clicked", "no match", "fails"}

UIStepOperation_propagates(outcome) ==
  IF outcome = "fails" THEN Throw(BrowserMessage) ELSE Return(NullPoints)

\* a UI step operation (rainbow.ts:297-351, 357-413, 419-499, 506-653,
\* 659-831, 837-893): try { ... } catch { }, nothing is returned
UIStepOperation(outcome) ==
  LET body == IF outcome = "fails" THEN Throw(BrowserMessage)
              ELSE Return(NullPoints)
  IN IF body.kind = "throw" THEN Return(NullPoints) ELSE body

\* the import steps of processWallet, in call order (rainbow.ts:1900-1912)
ImportStepNames ==
  <<"clickImportOrConnectButton", "clickImportWithSecretRecoveryPhraseButton",
    "clickImportFromPrivateKeyButton", "enterPrivateKeyAndImport",
    "enterPasswordAndSet">>

\* rainbow.ts:1900-1912: the five import steps one after the other; the
\* first that throws ends the sequence in processWallet's catch
ImportSteps ==
  /\ pc = "pw_steps"
  /\ \E outcomes \in [1..Len(ImportStepNames) -> StepOutcomes] :
       LET results == [k \in 1..Len(ImportStepNames) |->
                         UIStepOperation(outcomes[k])]
           thrown == {k \in 1..Len(ImportStepNames) :
                        results[k].kind = "throw"}
           steps == IF \A k \in 1..Len(ImportStepNames) :
                         outcomes[k] = "clicked"
                    THEN "all clicked" ELSE "some skipped"
       IN IF thrown = {}
          THEN /\ run' = [run EXCEPT !.steps = steps]
               /\ pc' = "pw_goto"
          ELSE /\ run' = [run EXCEPT !.steps = steps,
                                     !.error = BrowserMessage]
               /\ pc' = "pw_catch"
  /\ StaysInProcessWallet
  /\ UNCHANGED store

\* rainbow.ts:1915-1919; a failure lands in the catch {} of 1985
GotoMain ==
  /\ pc = "pw_goto"
  /\ \E throws \in BOOLEAN :
       IF throws
       THEN /\ run' = [run EXCEPT !.swallowed = BrowserMessage]
            /\ pc' = "pw_tail"
       ELSE /\ run' = run
            /\ pc' = "pw_check"
  /\ StaysInProcessWallet
  /\ UNCHANGED store

\* rainbow.ts:1927-1952: points were found
OnPoints_noReturn(r, points, closes) ==
  [run |-> [CleanedUp(Closed(Saved(r), closes)) EXCEPT
              !.points = points, !.outcome = "success"],
   pc |-> "pw_tail"]

OnPoints(r, points, closes) ==
  [run |-> [CleanedUp(Closed(Saved(r), closes)) EXCEPT
              !.points = points, !.outcome = "success", !.result = "true"],
   pc |-> "iw_return"]

\* rainbow.ts:1953-1981: the empty-balance error was caught
OnEmptyBalance(r, closes) ==
  [run |-> [CleanedUp(Closed(Saved(r), closes)) EXCEPT
              !.outcome = "empty_balance", !.result = "false"],
   pc |-> "iw_return"]

\* rainbow.ts:1922-1987: clickPointsTab, checkPointsOrUseReferralCode and
\* the handling of what it returns or throws
CheckPoints ==
  /\ pc = "pw_check"
  /\ \E outcome \in CheckOutcomes, closes \in BOOLEAN :
       LET checked == outcome.checked
           r == [run EXCEPT !.fundDetected = outcome.fundDetected]
       IN IF checked.kind = "return"
          THEN IF checked.value # NullPoints
               THEN LET next == OnPoints(r, checked.value, closes)
                    IN /\ store' = saveWalletData(r.address, checked.value,
                                                  "success", Undefined)
                       /\ run' = next.run
                       /\ pc' = next.pc
               ELSE /\ run' = r
                    /\ pc' = "pw_tail"
                    /\ UNCHANGED store
          ELSE IF IncludesEmptyBalance(checked.message)
               THEN LET next == OnEmptyBalance(r, closes)
                    IN /\ store' = saveWalletData(r.address, 0, "empty_balance",
                                                  "balance empty")
                       /\ run' = next.run
                       /\ pc' = next.pc
               ELSE \* throw error (1983), caught by the catch {} of 1985
                    /\ run' = [r EXCEPT !.swallowed = checked.message]
                    /\ pc' = "pw_tail"
                    /\ UNCHANGED store
  /\ StaysInProcessWallet

\* the tail of processWallet writing an error record before it returns
CloseAndReturn_savesError ==
  /\ pc = "pw_tail"
  /\ store' = saveWalletData(run.address, NullPoints, "error", BrowserMessage)
  /\ \E closes \in BOOLEAN :
       run' = [CleanedUp(Closed(Saved(run), closes)) EXCEPT
                 !.outcome = IF @ = "none" THEN "undetermined" ELSE @,
                 !.result = "true"]
  /\ pc' = "iw_return"
  /\ StaysInProcessWallet

\* rainbow.ts:1989-2003
CloseAndReturn ==
  /\ pc = "pw_tail"
  /\ \E closes \in BOOLEAN :
       run' = [CleanedUp(Closed(run, closes)) EXCEPT
                 !.outcome = IF @ = "none" THEN "undetermined" ELSE @,
                 !.result = "true"]
  /\ pc' = "iw_return"
  /\ StaysInProcessWallet
  /\ UNCHANGED store

\* rainbow.ts:2004-2029: the catch of processWallet
CatchOuter ==
  /\ pc = "pw_catch"
  /\ store' = saveWalletData(run.address, NullPoints, "error", run.error)
  /\ \E closes \in BOOLEAN :
       run' = [CleanedUp(Closed(Saved(run), closes)) EXCEPT
                 !.outcome = "error", !.result = "throw"]
  /\ pc' = "iw_catch"
  /\ StaysInProcessWallet

\* ----------------------------------------- importWallet, after processWallet
\* rainbow.ts:2092-2095 and 2108-2111
ImportReturn ==
  /\ pc = "iw_return"
  /\ successCount' = IF run.result = "true" THEN successCount + 1
                     ELSE successCount
  /\ handled' = Append(handled, run.outcome)
  /\ i' = i + 1
  /\ pc' = "loop"
  /\ UNCHANGED <<db, store, batches, batchEnd, privateKeys,
                 errorCount, skippedCount, run, sideVars>>

ImportCatch_rethrows ==
  /\ pc = "iw_catch"
  /\ store' = saveWalletData(run.address, NullPoints, "error", run.error)
  /\ errorCount' = errorCount + 1
  /\ pc' = "menu"
  /\ batchEnd' = "raised"
  /\ run' = Saved(run)
  /\ UNCHANGED <<db, batches, privateKeys, i, successCount,
                 skippedCount, handled, sideVars>>

\* rainbow.ts:2096-2111
ImportCatch ==
  /\ pc = "iw_catch"
  /\ store' = saveWalletData(run.address, NullPoints, "error", run.error)
  /\ run' = Saved(run)
  /\ errorCount' = errorCount + 1
  /\ handled' = Append(handled, run.outcome)
  /\ i' = i + 1
  /\ pc' = "loop"
  /\ UNCHANGED <<db, batches, batchEnd, privateKeys, successCount,
                 skippedCount, sideVars>>

\* ---------------------------------------------------------- specification
BatchStep ==
  \/ ShouldSkipThrows
  \/ SkipWallet
  \/ BeginProcessWallet
  \/ Summary
  \/ LaunchBrowser
  \/ FindExtension
  \/ OpenWallet
  \/ ImportSteps
  \/ GotoMain
  \/ CheckPoints
  \/ CloseAndReturn
  \/ CatchOuter
  \/ ImportReturn
  \/ ImportCatch

Next ==
  \/ ShowStatistics
  \/ ImportWalletBegin
  \/ BatchStep

Spec == Init /\ [][Next]_vars

\* every await of the pipeline is bounded, so a started batch keeps stepping
FairSpec == Spec /\ WF_vars(BatchStep)

\* --------------------- one call of checkPointsOrUseReferralCode on a page
\* the pages met with the referral affordance showing
ReferralPages == {p \in Pages : Len(p.words) <= 2}

PanelInit ==
  /\ db = "null"
  /\ store = [a \in Addresses |-> NoRecord]
  /\ pc = "menu"
  /\ batches = 0
  /\ batchEnd = "none"
  /\ privateKeys = <<>>
  /\ i = 1
  /\ successCount = 0
  /\ errorCount = 0
  /\ skippedCount = 0
  /\ run = NoRun
  /\ handled = <<>>
  /\ \/ page \in Pages /\ scenario = NoReferral
     \/ /\ page \in ReferralPages
        /\ scenario \in {s \in Scenarios : s.referralVisible}
  /\ pagePc = "loaded"
  /\ pointsInfo = NullPoints
  /\ clicks = 0
  /\ wait = NoWait
  /\ RestIdle

\* rainbow.ts:915-960: is a "Use Referral Code" control visible
CheckReferralButton ==
  /\ pagePc = "loaded"
  /\ pagePc' = IF scenario.referralVisible THEN "referral" ELSE "fast"
  /\ UNCHANGED <<page, scenario, pointsInfo, clicks, batchVars, wait, restVars>>

\* rainbow.ts:963-977: the first selector whose locator is visible is clicked
ClickReferralBySelector ==
  /\ pagePc = "referral"
  /\ clicks' = IF scenario.selectorClicks THEN clicks + 1 ELSE clicks
  /\ pagePc' = "evaluate click"
  /\ UNCHANGED <<page, scenario, pointsInfo, batchVars, wait, restVars>>

\* rainbow.ts:982-994: is there, as the evaluate callback runs, a displayed
\* element whose text includes "Use Referral Code"
DisplayedReferralElement(s, clicked) ==
  s.referralVisible /\ (clicked = 0 \/ s.stillShown)

\* rainbow.ts:979-1001: with the page open, the evaluate callback clicks the
\* first displayed element whose text includes "Use Referral Code"
ClickReferralByEvaluate ==
  /\ pagePc = "evaluate click"
  /\ clicks' = IF DisplayedReferralElement(scenario, clicks)
               THEN clicks + 1 ELSE clicks
  /\ pagePc' = "enter code"
  /\ UNCHANGED <<page, scenario, pointsInfo, batchVars, wait, restVars>>

\* rainbow.ts:1003-1022 and the catch of 1300: enterReferralCode gives the
\* result
RunReferralSubFlow ==
  /\ pagePc = "enter code"
  /\ pointsInfo' = checkPointsOrUseReferralCode(ShownUI(scenario, page)).value
  /\ pagePc' = "done"
  /\ UNCHANGED <<page, scenario, clicks, batchVars, wait, restVars>>

\* rainbow.ts:1028-1056
EvaluateFastPath ==
  /\ pagePc = "fast"
  /\ IF ~Includes(TextContent(page), "L") /\ ~Includes(InnerText(page), "L")
     THEN pointsInfo' = NullPoints /\ pagePc' = "done"
     ELSE IF FastPath(page) # NullPoints
          THEN pointsInfo' = FastPath(page) /\ pagePc' = "done"
          ELSE pointsInfo' = pointsInfo /\ pagePc' = "structural"
  /\ UNCHANGED <<page, scenario, clicks, batchVars, wait, restVars>>

\* rainbow.ts:1058-1298
EvaluateStructural ==
  /\ pagePc = "structural"
  /\ pointsInfo' = StructuralPath(page)
  /\ pagePc' = "done"
  /\ UNCHANGED <<page, scenario, clicks, batchVars, wait, restVars>>

PanelNext ==
  \/ CheckReferralButton
  \/ ClickReferralBySelector
  \/ ClickReferralByEvaluate
  \/ RunReferralSubFlow
  \/ EvaluateFastPath
  \/ EvaluateStructural

PanelSpec == PanelInit /\ [][PanelNext]_vars

\* ------------------------------- the polling loops and waits of one run
\* for (let attempt = 0; attempt < 15; attempt++), rainbow.ts:187
MaxDiscoveryAttempts == 15
\* for (let i = 0; i < 30; i++), rainbow.ts:609
MaxButtonPolls == 30
\* buttonSelectors of enterPrivateKeyAndImport, rainbow.ts:587-591
ImportButtonSelectors == 3
\* waitForFunction(..., { timeout: 10000 }), rainbow.ts:1651, in seconds
PointsEarnedTimeout == 10

WaitInit ==
  /\ db = "null"
  /\ store = [a \in Addresses |-> NoRecord]
  /\ pc = "menu"
  /\ batches = 0
  /\ batchEnd = "none"
  /\ privateKeys = <<>>
  /\ i = 1
  /\ successCount = 0
  /\ errorCount = 0
  /\ skippedCount = 0
  /\ run = NoRun
  /\ handled = <<>>
  /\ page = NoPage
  /\ scenario = NoReferral
  /\ pagePc = "idle"
  /\ pointsInfo = NullPoints
  /\ clicks = 0
  /\ wait = [NoWait EXCEPT !.pc = "discover"]
  /\ RestIdle

PollExtensionPages_unbounded ==
  /\ wait.pc = "discover"
  /\ \E found \in BOOLEAN :
       wait' = IF found THEN [wait EXCEPT !.pc = "import button"]
               ELSE [wait EXCEPT !.attempt = (@ + 1) % MaxDiscoveryAttempts]
  /\ UNCHANGED <<batchVars, pageVars, restVars>>

\* findRainbowExtensionId, rainbow.ts:187-208: one pass over context.pages()
\* processWallet goes on to the import steps whatever the id is
OnExtensionId_ignoresNull(w, extensionId) ==
  [w EXCEPT !.extensionId = extensionId, !.pc = "import button"]

\* rainbow.ts:1891-1894: processWallet with what findRainbowExtensionId
\* returned; its throw is caught at 2004
OnExtensionId(w, extensionId) ==
  IF extensionId = "null"
  THEN [w EXCEPT !.extensionId = extensionId, !.pc = "done",
                 !.error = ExtensionNotFoundMessage]
  ELSE [w EXCEPT !.extensionId = extensionId, !.pc = "import button"]

PollExtensionPages ==
  /\ wait.pc = "discover"
  /\ wait.attempt < MaxDiscoveryAttempts
  /\ \E found \in BOOLEAN :
       wait' = IF found THEN OnExtensionId(wait, "found")
               ELSE [wait EXCEPT
                       !.attempt = @ + 1,
                       !.pc = IF wait.attempt + 1 = MaxDiscoveryAttempts
                              THEN "extensions page" ELSE @]
  /\ UNCHANGED <<batchVars, pageVars, restVars>>

\* findRainbowExtensionId, rainbow.ts:210-240: chrome://extensions is opened
\* with a load timeout and searched; context.newPage() is in no try, the
\* rest is, and its catch leads to return null
OpenExtensionsPage ==
  /\ wait.pc = "extensions page"
  /\ \E outcome \in {"newPage throws", "found", "not listed", "goto throws"} :
       wait' = CASE outcome = "newPage throws" ->
                      [wait EXCEPT !.pc = "done", !.error = BrowserMessage]
                 [] outcome = "found" ->
                      OnExtensionId([wait EXCEPT !.extensionsPage = TRUE],
                                    "found")
                 [] OTHER ->
                      OnExtensionId([wait EXCEPT !.extensionsPage = TRUE],
                                    "null")
  /\ UNCHANGED <<batchVars, pageVars, restVars>>

\* the next selector, or the step after the selector loop
NextSelector(w) ==
  IF w.selector = ImportButtonSelectors
  THEN [w EXCEPT !.pc = "points earned"]
  ELSE [w EXCEPT !.pc = "import button", !.selector = @ + 1]

\* enterPrivateKeyAndImport, rainbow.ts:594-606 and 620-623: one selector
TrySelector ==
  /\ wait.pc = "import button"
  /\ \E outcome \in {"not visible", "clicked", "click throws", "disabled"} :
       LET w == [wait EXCEPT !.importSteps = TRUE]
       IN wait' = CASE outcome = "clicked" -> [w EXCEPT !.pc = "points earned"]
                    [] outcome = "disabled" ->
                         [w EXCEPT !.pc = "polling", !.poll = 0]
                    [] OTHER -> NextSelector(w)
  /\ UNCHANGED <<batchVars, pageVars, restVars>>

\* enterPrivateKeyAndImport, rainbow.ts:608-618: one poll of the button
PollDisabledButton ==
  /\ wait.pc = "polling"
  /\ wait.poll < MaxButtonPolls
  /\ \E outcome \in {"still disabled", "clicked", "click throws"} :
       wait' = CASE outcome = "clicked" -> [wait EXCEPT !.pc = "points earned"]
                 [] outcome = "click throws" -> NextSelector(wait)
                 [] OTHER ->
                      IF wait.poll + 1 = MaxButtonPolls
                      THEN NextSelector([wait EXCEPT !.poll = @ + 1])
                      ELSE [wait EXCEPT !.poll = @ + 1]
  /\ UNCHANGED <<batchVars, pageVars, restVars>>

\* enterReferralCode, rainbow.ts:1644-1652: a second of the wait for
\* "Points Earned:"
WaitPointsEarned ==
  /\ wait.pc = "points earned"
  /\ wait.elapsed < PointsEarnedTimeout
  /\ \E appears \in BOOLEAN :
       wait' = IF appears THEN [wait EXCEPT !.pc = "done"]
               ELSE [wait EXCEPT
                       !.elapsed = @ + 1,
                       !.pc = IF wait.elapsed + 1 = PointsEarnedTimeout
                              THEN "done" ELSE @]
  /\ UNCHANGED <<batchVars, pageVars, restVars>>

WaitNext ==
  \/ PollExtensionPages
  \/ OpenExtensionsPage
  \/ TrySelector
  \/ PollDisabledButton
  \/ WaitPointsEarned

\* a timer that was set fires, and a Playwright call with a timeout settles
WaitSpec == WaitInit /\ [][WaitNext]_vars /\ WF_vars(WaitNext)

\* ------------------------------- database.ts on the rows of the wallets table
\* the arguments saveWalletData is called with
SaveStatuses == {"success", "error", "empty_balance"}
SaveMessages == {Undefined, "", BrowserMessage}

\* the row of an address, 0 when the table has none
RowOf(rows, address) ==
  IF \E k \in 1..Len(rows) : rows[k].address = address
  THEN CHOOSE k \in 1..Len(rows) : rows[k].address = address
  ELSE 0

\* INSERT INTO wallets with no ON CONFLICT clause and no UNIQUE constraint
Upsert_insertOnly(rows, address, points, status, errorMessage) ==
  Append(rows, [id |-> Len(rows) + 1, address |-> address,
                values |-> StoredRecord(points, status, errorMessage)])

\* database.ts:102-112: INSERT ... ON CONFLICT(address) DO UPDATE SET ...; the
\* id is AUTOINCREMENT, and with no row ever deleted it is the row count + 1
Upsert(rows, address, points, status, errorMessage) ==
  LET k == RowOf(rows, address)
      values == StoredRecord(points, status, errorMessage)
  IN IF k = 0
     THEN Append(rows, [id |-> Len(rows) + 1, address |-> address,
                        values |-> values])
     ELSE [rows EXCEPT ![k].values = values]

\* SELECT * FROM wallets WHERE address = ? (database.ts:68-70)
SelectByAddress(rows, address) ==
  IF RowOf(rows, address) = 0 THEN NoRecord
  ELSE rows[RowOf(rows, address)].values

TableInit ==
  /\ db = "null"
  /\ store = [a \in Addresses |-> NoRecord]
  /\ pc = "menu"
  /\ batches = 0
  /\ batchEnd = "none"
  /\ privateKeys = <<>>
  /\ i = 1
  /\ successCount = 0
  /\ errorCount = 0
  /\ skippedCount = 0
  /\ run = NoRun
  /\ handled = <<>>
  /\ page = NoPage
  /\ scenario = NoReferral
  /\ pagePc = "idle"
  /\ pointsInfo = NullPoints
  /\ clicks = 0
  /\ wait = NoWait
  /\ RestIdle

TableUnchanged ==
  UNCHANGED <<pc, batches, batchEnd, privateKeys, i, successCount,
              errorCount, skippedCount, run, handled, pageVars, wait, flow,
              keyStep>>

\* database.ts:31-56: the connection is opened; CREATE TABLE IF NOT EXISTS
\* leaves the rows of an existing table alone
CallInitDatabase ==
  /\ \E opens \in BOOLEAN : db' = initDatabase(opens)
  /\ UNCHANGED <<store, wallets, lastSave>>
  /\ TableUnchanged

\* database.ts:92-117: with db null the call throws before any statement
CallSaveWalletData ==
  /\ \E address \in Addresses, points \in ParsedValues,
        status \in SaveStatuses, errorMessage \in SaveMessages :
       IF db = "null"
       THEN UNCHANGED <<store, wallets, lastSave>>
       ELSE /\ wallets' = Upsert(wallets, address, points, status,
                                 errorMessage)
            /\ store' = saveWalletData(address, points, status, errorMessage)
            /\ lastSave' =
                 [lastSave EXCEPT ![address] =
                    [record |-> StoredRecord(points, status, errorMessage),
                     updated |-> RowOf(wallets, address) # 0]]
  /\ UNCHANGED db
  /\ TableUnchanged

TableNext ==
  \/ CallInitDatabase
  \/ CallSaveWalletData

TableSpec == TableInit /\ [][TableNext]_vars

\* --------------------------------------- one call of enterReferralCode
\* rainbow.ts:1848-1854: the catch of the whole function
OuterCatch_rethrowsAll(body) == body

OuterCatch(body) ==
  IF body.kind = "throw" /\ ~IncludesEmptyBalance(body.message)
  THEN Return(NullPoints)
  ELSE body

\* a catch block took this exception
Caught(f, message) == [f EXCEPT !.caught = message]

TimeoutMessage == "Timeout 10000ms exceeded"

\* the call has ended, with this result of its try block
Ended(f, body) ==
  [f EXCEPT !.pc = "returned", !.result = OuterCatch(body),
            !.caught = IF body.kind = "throw" /\ OuterCatch(body).kind = "return"
                       THEN body.message ELSE @]

Did(f, event) == [f EXCEPT !.events = Append(@, event)]

\* rainbow.ts:1478-1509: the events the raw-DOM fallback dispatches to the
\* input, in dispatch order
SyntheticEnter == <<"keydown", "keyup", "keypress">>

FlowInit ==
  /\ db = "null"
  /\ store = [a \in Addresses |-> NoRecord]
  /\ pc = "menu"
  /\ batches = 0
  /\ batchEnd = "none"
  /\ privateKeys = <<>>
  /\ i = 1
  /\ successCount = 0
  /\ errorCount = 0
  /\ skippedCount = 0
  /\ run = NoRun
  /\ handled = <<>>
  /\ page = NoPage
  /\ scenario = NoReferral
  /\ pagePc = "idle"
  /\ pointsInfo = NullPoints
  /\ clicks = 0
  /\ wait = NoWait
  /\ TableIdle
  /\ flow = [NoFlow EXCEPT !.pc = "fill"]
  /\ keyStep = NoKeyStep

FlowUnchanged == UNCHANGED <<batchVars, pageVars, wait, tableVars, keyStep>>

\* rainbow.ts:1316-1422: the code is filled into the input, by a locator or
\* by the evaluate fallback (which is in no try of its own)
FillReferralInput ==
  /\ flow.pc = "fill"
  /\ \E outcome \in {"locator fills", "evaluate fills", "no input",
                     "evaluate throws"} :
       flow' = CASE outcome \in {"locator fills", "evaluate fills"} ->
                      [Did(flow, "fill") EXCEPT !.pc = "enter"]
                 [] outcome = "no input" -> Ended(flow, Return(NullPoints))
                 [] OTHER -> Ended(flow, Throw(BrowserMessage))
  /\ FlowUnchanged

\* rainbow.ts:1424-1522: Enter is pressed on the input holding the code, by
\* input.press or by the evaluate fallback's synthetic events
PressEnter ==
  /\ flow.pc = "enter"
  /\ \E outcome \in {"locator presses", "evaluate dispatches", "no input",
                     "evaluate throws"} :
       flow' = CASE outcome = "locator presses" ->
                      [Did(flow, "press Enter") EXCEPT !.pc = "sign in"]
                 [] outcome = "evaluate dispatches" ->
                      [flow EXCEPT !.events = @ \o SyntheticEnter,
                                   !.pc = "sign in"]
                 [] outcome = "no input" -> [flow EXCEPT !.pc = "sign in"]
                 [] OTHER -> Ended(flow, Throw(BrowserMessage))
  /\ FlowUnchanged

\* the step going on to the fund-wallet check whether or not "Sign In" was
\* clicked
ClickSignIn_checksAnyway ==
  /\ flow.pc = "sign in"
  /\ \E signInButtonFound \in BOOLEAN :
       flow' = IF signInButtonFound
               THEN [Did(flow, "Sign In") EXCEPT !.pc = "fund wallet"]
               ELSE [flow EXCEPT !.pc = "fund wallet"]
  /\ FlowUnchanged

\* rainbow.ts:1524-1581 and 1845: "Sign In" is clicked by a locator or by the
\* evaluate fallback; without it the function returns null
ClickSignIn ==
  /\ flow.pc = "sign in"
  /\ \E signInButtonFound \in BOOLEAN :
       flow' = IF signInButtonFound
               THEN [Did(flow, "Sign In") EXCEPT !.pc = "fund wallet"]
               ELSE Ended(flow, Return(NullPoints))
  /\ FlowUnchanged

\* the step after the fund-wallet check found the control (a fall through
\* to the wait in place of the throw)
AfterFundWalletCheck_goesOn(f, fundWalletButtonFound) ==
  [f EXCEPT !.fundDetected = fundWalletButtonFound, !.pc = "wait earned"]

\* rainbow.ts:1640-1642
AfterFundWalletCheck(f, fundWalletButtonFound) ==
  IF fundWalletButtonFound
  THEN Ended([f EXCEPT !.fundDetected = TRUE], Throw(EmptyBalanceMessage))
  ELSE [f EXCEPT !.pc = "wait earned"]

\* rainbow.ts:1583-1642: five seconds after the click, "Fund My Wallet" is
\* looked for
CheckFundWallet ==
  /\ flow.pc = "fund wallet"
  /\ \E pageClosed \in BOOLEAN, fundWalletButtonFound \in BOOLEAN :
       flow' = IF pageClosed THEN Ended(flow, Return(NullPoints))
               ELSE AfterFundWalletCheck(flow, fundWalletButtonFound)
  /\ FlowUnchanged

\* the step after the wait with its timeout taken for an appearance
AfterWait_ignoresTimeout(f, appears) == [f EXCEPT !.pc = "parse"]

\* rainbow.ts:1647-1656 and 1840-1842: a timeout of waitForFunction lands in
\* the inner catch, and the function returns null at 1845
AfterWait(f, appears) ==
  IF appears THEN [f EXCEPT !.appeared = TRUE, !.pc = "parse"]
  ELSE Ended(Caught(f, TimeoutMessage), Return(NullPoints))

WaitForPointsEarned ==
  /\ flow.pc = "wait earned"
  /\ \E appears \in BOOLEAN : flow' = AfterWait(flow, appears)
  /\ FlowUnchanged

\* rainbow.ts:1658-1671: the number after "Points Earned:"; a failing
\* evaluate lands in the inner catch
ParsePointsEarned ==
  /\ flow.pc = "parse"
  /\ \E text \in {t \in EarnedTexts : Includes(t, "E")}, throws \in BOOLEAN :
       flow' = IF throws
               THEN Ended(Caught(flow, BrowserMessage), Return(NullPoints))
               ELSE [flow EXCEPT
                       !.pointsEarned = PositiveOrNull(EarnedNumber(text)),
                       !.pc = "continue"]
  /\ FlowUnchanged

\* a control of the acknowledgment sequence: a locator clicks it, or else
\* the evaluate fallback does, or it is absent (or the page is closed)
Acknowledged(f, control, found, next) ==
  IF found THEN [Did(f, control) EXCEPT !.pc = next]
  ELSE [f EXCEPT !.pc = next]

\* rainbow.ts:1673-1724
ClickContinue ==
  /\ flow.pc = "continue"
  /\ \E continueButtonFound \in BOOLEAN :
       flow' = Acknowledged(flow, "Continue", continueButtonFound, "skip")
  /\ FlowUnchanged

\* rainbow.ts:1726-1777
ClickSkip ==
  /\ flow.pc = "skip"
  /\ \E skipButtonFound \in BOOLEAN :
       flow' = Acknowledged(flow, "Skip", skipButtonFound, "done button")
  /\ FlowUnchanged

ReturnedPoints_ignoresDone(doneButtonFound, pointsEarned) ==
  Return(pointsEarned)

\* rainbow.ts:1834-1837 and 1845
ReturnedPoints(doneButtonFound, pointsEarned) ==
  IF doneButtonFound /\ pointsEarned # NullPoints
  THEN Return(pointsEarned)
  ELSE Return(NullPoints)

\* rainbow.ts:1779-1845
ClickDone ==
  /\ flow.pc = "done button"
  /\ \E doneButtonFound \in BOOLEAN :
       LET f == Acknowledged(flow, "Done", doneButtonFound, "returned")
       IN flow' = Ended([f EXCEPT !.doneButtonFound = doneButtonFound],
                        ReturnedPoints(doneButtonFound, f.pointsEarned))
  /\ FlowUnchanged

FlowNext ==
  \/ FillReferralInput
  \/ PressEnter
  \/ ClickSignIn
  \/ CheckFundWallet
  \/ WaitForPointsEarned
  \/ ParsePointsEarned
  \/ ClickContinue
  \/ ClickSkip
  \/ ClickDone

FlowSpec == FlowInit /\ [][FlowNext]_vars

\* ------------------------- one call of clickImportFromPrivateKeyButton
\* The phrases the step tests a text for
ImportFromAPrivateKey == "Import from a Private Key"
ImportFromPrivateKey == "Import from Private Key"
SecretRecoveryPhrase == "Secret Recovery Phrase"
RecoveryPhrase == "Recovery Phrase"
Seed == "Seed"

\* the texts of the elements: the phrases written in them
ElementTexts ==
  {{}, {ImportFromAPrivateKey}, {ImportFromPrivateKey},
   {ImportFromAPrivateKey, SecretRecoveryPhrase},
   {ImportFromPrivateKey, RecoveryPhrase},
   {ImportFromAPrivateKey, Seed}}

\* text.includes(phrase): a text with "Secret Recovery Phrase" has "Recovery
\* Phrase" in it
TextIncludes(text, phrase) ==
  \/ phrase \in text
  \/ phrase = RecoveryPhrase /\ SecretRecoveryPhrase \in text

\* An element of the import screen: its text, its kind for the selectors,
\* whether it is displayed, and whether it sits in a shadow tree, where a
\* locator finds it and document.querySelectorAll does not
ScreenElements ==
  [text : ElementTexts, kind : {"button", "role button", "div"},
   displayed : BOOLEAN, shadow : BOOLEAN]

Screens == UNION {[1..n -> ScreenElements] : n \in 1..MaxElements}

\* text.includes('Import from a Private Key') || text === ... ||
\* text.includes('Import from Private Key'), rainbow.ts:431-433 and 474
HasCorrectText(text) ==
  \/ TextIncludes(text, ImportFromAPrivateKey)
  \/ TextIncludes(text, ImportFromPrivateKey)

HasWrongText_noSeed(text) ==
  \/ TextIncludes(text, SecretRecoveryPhrase)
  \/ TextIncludes(text, RecoveryPhrase)

\* rainbow.ts:434-436 and 470-472
HasWrongText(text) ==
  \/ TextIncludes(text, SecretRecoveryPhrase)
  \/ TextIncludes(text, Seed)
  \/ TextIncludes(text, RecoveryPhrase)

\* the first element of the screen that satisfies the test, 0 without one
FirstElement(elements, Test(_)) ==
  IF \E k \in 1..Len(elements) : Test(elements[k])
  THEN CHOOSE k \in 1..Len(elements) :
         Test(elements[k]) /\ \A j \in 1..(k - 1) : ~Test(elements[j])
  ELSE 0

\* rainbow.ts:426-446: the element the evaluate sweep clicks
SweepTarget(elements) ==
  LET Test(el) == /\ ~el.shadow
                  /\ HasCorrectText(el.text) /\ ~HasWrongText(el.text)
                  /\ el.displayed
  IN FirstElement(elements, Test)

\* 'button:has-text("Import from a Private Key")' and its role variant
ButtonSelectors == <<"button", "role button">>

\* rainbow.ts:461-480: the element the loop over a selector's locators clicks
SelectorTarget(elements, selector) ==
  LET Test(el) == /\ el.kind = ButtonSelectors[selector]
                  /\ TextIncludes(el.text, ImportFromAPrivateKey)
                  /\ el.displayed
                  /\ ~HasWrongText(el.text) /\ HasCorrectText(el.text)
  IN FirstElement(elements, Test)

KeyStepInit ==
  /\ db = "null"
  /\ store = [a \in Addresses |-> NoRecord]
  /\ pc = "menu"
  /\ batches = 0
  /\ batchEnd = "none"
  /\ privateKeys = <<>>
  /\ i = 1
  /\ successCount = 0
  /\ errorCount = 0
  /\ skippedCount = 0
  /\ run = NoRun
  /\ handled = <<>>
  /\ page = NoPage
  /\ scenario = NoReferral
  /\ pagePc = "idle"
  /\ pointsInfo = NullPoints
  /\ clicks = 0
  /\ wait = NoWait
  /\ TableIdle
  /\ flow = NoFlow
  /\ \E elements \in Screens :
       keyStep = [NoKeyStep EXCEPT !.pc = "sweep", !.elements = elements]

KeyStepUnchanged == UNCHANGED <<batchVars, pageVars, wait, tableVars, flow>>

\* rainbow.ts:426-451: the evaluate sweep; an evaluate that throws ends the
\* step in its catch
SweepDocument ==
  /\ keyStep.pc = "sweep"
  /\ \E throws \in BOOLEAN :
       LET k == SweepTarget(keyStep.elements)
       IN keyStep' =
            IF throws THEN [keyStep EXCEPT !.pc = "done"]
            ELSE IF k # 0
                 THEN [keyStep EXCEPT !.clicked = Append(@, k), !.pc = "done"]
                 ELSE [keyStep EXCEPT !.pc = "selectors"]
  /\ KeyStepUnchanged

\* rainbow.ts:459-488: one selector of buttonSelectors; a locator call or a
\* click that throws moves on to the next selector
TryButtonSelector ==
  /\ keyStep.pc = "selectors"
  /\ \E throws \in BOOLEAN :
       LET k == SelectorTarget(keyStep.elements, keyStep.selector)
           next == IF keyStep.selector = Len(ButtonSelectors)
                   THEN [keyStep EXCEPT !.pc = "done"]
                   ELSE [keyStep EXCEPT !.selector = @ + 1]
       IN keyStep' =
            IF throws \/ k = 0 THEN next
            ELSE [keyStep EXCEPT !.clicked = Append(@, k), !.pc = "done"]
  /\ KeyStepUnchanged

KeyStepNext ==
  \/ SweepDocument
  \/ TryButtonSelector

KeyStepSpec == KeyStepInit /\ [][KeyStepNext]_vars

TypeOK ==
  /\ db \in {"null", "open"}
  /\ pc \in {"menu", "loop", "pw_launch", "pw_find", "pw_open", "pw_steps",
             "pw_goto", "pw_check", "pw_tail", "pw_catch", "iw_return",
             "iw_catch"}
  /\ batches \in 0..MaxBatches
  /\ i \in 1..(MaxKeys + 1)
  /\ successCount \in 0..MaxKeys
  /\ errorCount \in 0..MaxKeys
  /\ skippedCount \in 0..MaxKeys
  /\ page \in Pages \cup {NoPage}
  /\ scenario \in Scenarios
  /\ pagePc \in {"idle", "loaded", "referral", "evaluate click", "enter code",
                 "fast", "structural", "done"}
  /\ clicks \in 0..2
  /\ pointsInfo \in Int
  /\ wait.pc \in {"idle", "discover", "extensions page", "import button",
                 "polling", "points earned", "done"}
  /\ wait.attempt \in 0..MaxDiscoveryAttempts
  /\ wait.selector \in 1..ImportButtonSelectors
  /\ wait.poll \in 0..MaxButtonPolls
  /\ wait.elapsed \in 0..PointsEarnedTimeout
  /\ wait.extensionId \in {"none", "found", "null"}
  /\ wait.extensionsPage \in BOOLEAN
  /\ wait.importSteps \in BOOLEAN
  /\ Len(wallets) <= Cardinality(Addresses)
  /\ \A a \in Addresses : lastSave[a].updated \in BOOLEAN
  /\ flow.pc \in {"idle", "fill", "enter", "sign in", "fund wallet",
                 "wait earned", "parse", "continue", "skip", "done button",
                 "returned"}
  /\ flow.result.kind \in {"return", "throw"}
  /\ keyStep.pc \in {"idle", "sweep", "selectors", "done"}
  /\ keyStep.selector \in 1..Len(ButtonSelectors)
  /\ Len(keyStep.elements) <= MaxElements

\* =================================================================== claims
Count(seq, e) == Cardinality({k \in 1..Len(seq) : seq[k] = e})

\* a processWallet call has ended and importWallet has dealt with its result
RunEnded == pc = "loop" /\ run.result # "none"

\* an exception was raised in the run after launchBrowserWithRainbow returned
RaisedAfterLaunch ==
  run.launched /\ (run.error # Undefined \/ run.swallowed # Undefined
                   \/ run.closeThrew)

HasSuccessRecord(address) ==
  /\ store[address] # NoRecord
  /\ store[address].status = "success"
  /\ store[address].points > 0

\* C1: a run in which the referral sub-flow saw "Fund My Wallet" ends with
\* the record status=empty_balance, points=0 stored for the wallet's address
C1_FundWalletGivesEmptyBalance ==
  (RunEnded /\ run.fundDetected) =>
     /\ store[run.address] # NoRecord
     /\ store[run.address].status = "empty_balance"
     /\ store[run.address].points = 0

\* C2: a run that ends in success, empty_balance or error has made exactly
\* one saveWalletData call, processWallet's and importWallet's counted together
C2_ExactlyOneWrite ==
  (RunEnded /\ run.outcome \in {"success", "empty_balance", "error"}) =>
     Count(run.events, "save") = 1

\* C3: no saveWalletData call of a run comes after the run's context.close()
\* or cleanupTempProfile
C3_WritesBeforeTeardown ==
  \A m \in 1..Len(run.events), n \in 1..Len(run.events) :
     (run.events[m] \in {"close", "cleanup"} /\ run.events[n] = "save") => n < m

\* C4: a run in which an exception was raised after the browser was launched
\* has invoked context.close() exactly once and cleanupTempProfile exactly
\* once when it ends, and never more than once before
C4_TeardownExactlyOnce ==
  /\ Count(run.events, "close") <= 1
  /\ Count(run.events, "cleanup") <= 1
  /\ (RunEnded /\ RaisedAfterLaunch) =>
        /\ Count(run.events, "close") = 1
        /\ Count(run.events, "cleanup") = 1

C4_Witness ==
  /\ RunEnded
  /\ run.launched
  /\ run.error # Undefined
  /\ run.closeThrew
  /\ Count(run.events, "close") = 1
  /\ Count(run.events, "cleanup") = 1

C6_ErrorCountedBatchContinues ==
  /\ [][pc = "iw_catch" =>
         /\ errorCount' = errorCount + 1
         /\ i' = i + 1
         /\ pc' = "loop"]_vars
  /\ [](errorCount = Count(handled, "error"))
  /\ []((pc = "loop" /\ i > Len(privateKeys)) =>
          Len(handled) = Len(privateKeys))
  /\ (pc = "iw_catch" ~> batchEnd = "summary")

\* a batch in which a run raised has handled a later key and stands at its
\* summary
C6_Witness ==
  /\ pc = "loop"
  /\ i > Len(privateKeys)
  /\ Len(handled) = MaxKeys
  /\ handled[1] = "error"
  /\ errorCount >= 1

\* C7: when initDatabase failed and the store stays uninitialised (db is still
\* null), importWallet does not raise and skips no key
C7_BatchProceedsWithoutStore ==
  db = "null" =>
     /\ batchEnd # "raised"
     /\ \A k \in 1..Len(handled) : handled[k] # "skipped"

\* C8: an exception raised by a pipeline step after the session was
\* provisioned leaves the record status=error, points=null, error_message =
\* the exception's message
C8_ExceptionRecordedAsError ==
  (RunEnded /\ run.launched
     /\ (run.error # Undefined \/ run.swallowed # Undefined)) =>
     LET message == IF run.error # Undefined THEN run.error ELSE run.swallowed
     IN store[run.address] =
          [points |-> NullPoints, status |-> "error", error_message |-> message]

\* C9: every stored record with status=success has positive points, with
\* status=empty_balance has points=0, with status=error has points=null and
\* an error message
C9_RecordInvariant ==
  \A a \in Addresses :
     store[a] # NoRecord =>
       /\ store[a].status = "success" => store[a].points > 0
       /\ store[a].status = "empty_balance" => store[a].points = 0
       /\ store[a].status = "error" =>
            /\ store[a].points = NullPoints
            /\ store[a].error_message # NullString

C9_Witness ==
  /\ batches = MaxBatches
  /\ \E a \in Addresses, b \in Addresses :
       /\ store[a] # NoRecord
       /\ store[b] # NoRecord
       /\ store[a].status = "success"
       /\ store[b].status = "error"

\* the keys of this batch whose runs wrote a record
WroteRecord(k) == handled[k] \in {"success", "empty_balance", "error"}

C11_InvalidKeyStillProcessed ==
  [][(/\ pc = "loop"
      /\ i <= Len(privateKeys)
      /\ ~privateKeyToAccount(privateKeys[i]).ok
      /\ ~HasSuccessRecord(ZeroAddress))
     => (/\ pc' = "pw_launch"
         /\ run'.key = privateKeys[i]
         /\ run'.address = ZeroAddress)]_vars

\* String.prototype.toLowerCase as callers apply it to an address
\* (menu.ts:109, 114-115): the hex letters A-F become a-f
toLowerCase(address) ==
  CASE address = "0xAa1" -> "0xaa1"
    [] OTHER -> address

\* C12: for every valid key of the list the derived address is the same
\* string at every derivation, and lower-casing leaves that string unchanged
C12_DeterministicCaseNormalized ==
  \A k \in 1..Len(privateKeys) :
     privateKeyToAccount(privateKeys[k]).ok =>
       LET address == getAddressFromPrivateKey(privateKeys[k])
       IN /\ address = getAddressFromPrivateKey(privateKeys[k])
          /\ (pc \notin {"menu", "loop", "pw_launch"} /\ run.key = privateKeys[k])
                => run.address = address
          /\ toLowerCase(address) = address

\* a call of checkPointsOrUseReferralCode that read the page for points has
\* returned
Extracted == pagePc = "done" /\ ~scenario.referralVisible

\* "My Points 750 points to rank #1,200"
RankText == LabelWord \o <<" ", "7", "5", "0", " ">> \o RankPhrase

\* C13: for a page whose text is "My Points 750 points to rank #1,200" the
\* extraction does not return 750, however the text is split into elements
C13_RankNumberNeverReturned ==
  (Extracted /\ InnerText(page) = RankText) => pointsInfo # 750

GroupedNumber == <<"1", "2", ",", "3", "4", "5">>

\* a leaf that is the label alone, followed by a leaf that is "12,345" alone
LabelThenGroupedNumber(p) ==
  \E k \in 1..(Len(Leaves(p)) - 1) :
     Leaves(p)[k] = LabelWord /\ Leaves(p)[k + 1] = GroupedNumber

\* C14: for a page with a "My Points" label node followed by a sibling node
\* whose text is exactly "12,345", the extraction returns 12345
C14_GroupedSiblingGivesInteger ==
  (Extracted /\ LabelThenGroupedNumber(page)) => pointsInfo = 12345

\* C15: what checkPointsOrUseReferralCode returns, from the fast path, a
\* structural strategy or the "Points Earned:" parse, is null or a strictly
\* positive integer
C15_NullOrPositive ==
  pagePc = "done" => (pointsInfo = NullPoints \/ pointsInfo > 0)

\* the page showed the number 0 after the label and the call returned null
C15_Witness ==
  /\ Extracted
  /\ LabelNumberCapture(InnerText(page), "L") = <<"0">>
  /\ pointsInfo = NullPoints

\* a leaf that is the label alone, followed by a leaf that is "0" alone
LabelThenZero(p) ==
  \E k \in 1..(Len(Leaves(p)) - 1) :
     Leaves(p)[k] = LabelWord /\ Leaves(p)[k + 1] = <<"0">>

\* C16: when the points panel shows "My Points" with the value 0 and no
\* referral control is visible, checkPointsOrUseReferralCode returns null, so
\* that processWallet ends with points undetermined and writes no success
\* record
C16_ZeroPointsUndetermined ==
  (Extracted /\ LabelThenZero(page)) => pointsInfo = NullPoints

C18_WaitsBoundedRunTerminates ==
  /\ [](/\ wait.attempt <= MaxDiscoveryAttempts
        /\ wait.poll <= MaxButtonPolls
        /\ wait.elapsed <= PointsEarnedTimeout)
  /\ <>(wait.pc = "done")

\* a run in which the extension pages never showed the extension, the last
\* import button stayed disabled and "Points Earned:" never appeared
C18_Witness ==
  /\ wait.pc = "done"
  /\ wait.attempt = MaxDiscoveryAttempts
  /\ wait.selector = ImportButtonSelectors
  /\ wait.poll = MaxButtonPolls
  /\ wait.elapsed = PointsEarnedTimeout

\* C19: the UI step operations never raise: whatever each of them meets (its
\* element clicked, no element matching, a locator or click failing),
\* processWallet goes on to the next step, the main-view navigation, with no
\* error raised
C19_StepsNeverRaise ==
  /\ [](\A outcome \in StepOutcomes : UIStepOperation(outcome).kind = "return")
  /\ [](run.steps # "none" => run.error = Undefined)
  /\ [][pc = "pw_steps" =>
          /\ pc' = "pw_goto"
          /\ run'.steps \in {"all clicked", "some skipped"}
          /\ run'.error = Undefined]_vars

\* a run in which a step found no element or failed inside has gone on and
\* ended with points stored
C19_Witness ==
  /\ RunEnded
  /\ run.steps = "some skipped"
  /\ run.outcome = "success"

\* C20: the "Use Referral Code" step of checkPointsOrUseReferralCode clicks the
\* control at most once: the selector path and the raw-DOM fallback never both
\* click in one call
C20_ReferralClickedAtMostOnce == clicks <= 1

C22_ProfileRemovedOnEveryExit ==
  run.result # "none" => run.profileDir # "exists"

\* the referral sub-flow of the call is under way or was run
InReferralSubFlow ==
  \/ pagePc \in {"referral", "evaluate click", "enter code"}
  \/ pagePc = "done" /\ scenario.referralVisible

\* C23: the referral sub-flow is entered only on a page on which the points
\* extraction gives null; on a page showing both a valid "My Points" value and
\* the "Use Referral Code" control the sub-flow is not entered
C23_ReferralOnlyAfterNullExtraction ==
  InReferralSubFlow => extractPoints(page) = NullPoints

\* the number of the sub-flow's acknowledgment controls, in click order
AckRank(event) ==
  CASE event = "Continue" -> 1 [] event = "Skip" -> 2 [] event = "Done" -> 3
    [] OTHER -> 0

FlowClicked(control) == \E k \in 1..Len(flow.events) : flow.events[k] = control

\* C24: a completed enterReferralCode call returns a points value exactly
\* when the "Points Earned:" number was parsed as a positive integer and
\* "Done" was clicked, and that value is the parsed one; every other completed
\* call that did not detect the fund-wallet control returns null
C24_PointsIffParsedAndDone ==
  flow.pc = "returned" =>
    /\ (flow.result.kind = "return" /\ flow.result.value # NullPoints)
         <=> (flow.pointsEarned > 0 /\ FlowClicked("Done"))
    /\ flow.result.value # NullPoints => flow.result.value = flow.pointsEarned
    /\ ~flow.fundDetected => flow.result.kind = "return"

\* points were returned in a call that clicked neither Continue nor Skip
C24_Witness ==
  /\ flow.pc = "returned"
  /\ flow.result.value > 0
  /\ ~FlowClicked("Continue")
  /\ ~FlowClicked("Skip")

\* C25: enterReferralCode raises nothing but the empty-balance error: every
\* other exception inside it is caught and the call returns null
C25_OnlyEmptyBalanceRaised ==
  flow.pc = "returned" =>
    /\ flow.result.kind = "throw" =>
         flow.result.message = EmptyBalanceMessage /\ flow.fundDetected
    /\ flow.caught # Undefined => flow.result = Return(NullPoints)

\* the wait for "Points Earned:" timed out and the call returned null
C25_Witness ==
  /\ flow.pc = "returned"
  /\ flow.caught = TimeoutMessage
  /\ flow.result = Return(NullPoints)

\* C26: once the fund-wallet control is detected the call is over: no wait
\* for "Points Earned:", no click on Continue, Skip or Done, and no further
\* step of the sub-flow
C26_NothingAfterFundWallet ==
  /\ [](flow.fundDetected =>
          /\ flow.pc = "returned"
          /\ ~flow.appeared
          /\ \A k \in 1..Len(flow.events) : AckRank(flow.events[k]) = 0)
  /\ [][flow.fundDetected => flow' = flow]_vars

C26_Witness ==
  /\ flow.fundDetected
  /\ flow.result = Throw(EmptyBalanceMessage)
  /\ FlowClicked("Sign In")

\* C27: Continue, Skip and Done are clicked only after "Points Earned:"
\* appeared within its wait, in that order and at most once each, and a
\* control that is absent does not keep the later ones from being tried
C27_AcknowledgmentOrder ==
  /\ [](\A k \in 1..Len(flow.events) :
          AckRank(flow.events[k]) > 0 => flow.appeared)
  /\ [](\A j, k \in 1..Len(flow.events) :
          (j < k /\ AckRank(flow.events[j]) > 0 /\ AckRank(flow.events[k]) > 0)
            => AckRank(flow.events[j]) < AckRank(flow.events[k]))
  /\ [][/\ flow.pc = "continue" => flow'.pc = "skip"
        /\ flow.pc = "skip" => flow'.pc = "done button"]_vars

\* Done was clicked in a call that found neither Continue nor Skip
C27_Witness ==
  /\ flow.appeared
  /\ FlowClicked("Done")
  /\ ~FlowClicked("Continue")
  /\ ~FlowClicked("Skip")
  /\ flow.pointsEarned = NullPoints

\* C28: when Enter is confirmed by synthetic events, the input gets key-down,
\* then key-press, then key-up
C28_EnterKeySequence ==
  \A k \in 1..Len(flow.events) :
     flow.events[k] = "keydown" =>
       /\ Len(flow.events) >= k + 2 => flow.events[k + 1] = "keypress"
       /\ Len(flow.events) >= k + 2 => flow.events[k + 2] = "keyup"

\* C29: every element clickImportFromPrivateKeyButton clicks, by the raw-DOM
\* sweep or by a selector, has a text with "Import from a Private Key" or
\* "Import from Private Key" in it and none of "Secret Recovery Phrase",
\* "Recovery Phrase", "Seed"; one call clicks at most one element
C29_OnlyPrivateKeyButtonClicked ==
  /\ Len(keyStep.clicked) <= 1
  /\ \A c \in 1..Len(keyStep.clicked) :
       LET text == keyStep.elements[keyStep.clicked[c]].text
       IN /\ ImportFromAPrivateKey \in text \/ ImportFromPrivateKey \in text
          /\ SecretRecoveryPhrase \notin text
          /\ RecoveryPhrase \notin text
          /\ Seed \notin text

\* the second selector clicked a button the sweep could not reach, behind an
\* element that names the seed path
C29_Witness ==
  /\ keyStep.pc = "done"
  /\ keyStep.selector = 2
  /\ keyStep.clicked = <<2>>
  /\ Seed \in keyStep.elements[1].text
  /\ keyStep.elements[1].displayed

\* C30: findRainbowExtensionId polls the open pages at most 15 times and
\* opens the extensions page only after 15 polls found nothing; when the
\* extensions page does not give the extension either it returns null, and
\* processWallet then runs no import step and ends the run with an error
C30_DiscoveryThenError ==
  /\ [](/\ wait.attempt <= MaxDiscoveryAttempts
        /\ (wait.extensionsPage \/ wait.pc = "extensions page")
             => wait.attempt = MaxDiscoveryAttempts
        /\ wait.extensionId = "null" =>
             /\ wait.extensionsPage
             /\ wait.pc = "done"
             /\ wait.error = ExtensionNotFoundMessage
             /\ ~wait.importSteps)
  /\ [][wait.extensionId = "null" => wait' = wait]_vars

\* neither the 15 polls nor the extensions page gave the extension
C30_Witness ==
  /\ wait.extensionId = "null"
  /\ wait.attempt = MaxDiscoveryAttempts
  /\ wait.error = ExtensionNotFoundMessage

\* five digits with no separator
UngroupedNumber == <<"1", "2", "3", "4", "5">>

\* C31: on a page that shows the label followed by one number of five digits
\* written without separators, the value returned is the decimal value of all
\* five digits
C31_FullStandaloneNumber ==
  (Extracted /\ page.words = <<LabelWord, UngroupedNumber>>)
    => pointsInfo = 12345

\* the five strategies of one label element, in the order of the code
StrategyValues(p, el) ==
  <<Strategy1(p, el), Strategy2(p, el), Strategy3(p, el), Strategy4(p, el),
    Strategy5(p, el)>>

\* value v is what strategy k gives for the n-th label element, and nothing
\* tried before it (an earlier element, an earlier strategy) gave a value
FirstValidMatch(p, n, k, v) ==
  LET elements == myPointsElements(p)
  IN /\ StrategyValues(p, elements[n])[k] = v
     /\ v # NullPoints
     /\ \A j \in 1..(k - 1) : StrategyValues(p, elements[n])[j] = NullPoints
     /\ \A m \in 1..(n - 1) : \A j \in 1..5 :
          StrategyValues(p, elements[m])[j] = NullPoints

\* C32: the extraction stops at the first valid match in priority order: the
\* structural path is run only when the fast path gave no value, a fast-path
\* value is the result, and a structural result is the value of the first
\* strategy (next sibling, child, parent text, same-level sibling, ancestors)
\* of the first label element that gave one
C32_FirstValidMatchReturned ==
  /\ pagePc = "structural" => FastPath(page) = NullPoints
  /\ (Extracted /\ FastPath(page) # NullPoints /\ Includes(InnerText(page), "L"))
       => pointsInfo = FastPath(page)
  /\ (Extracted /\ FastPath(page) = NullPoints /\ pointsInfo # NullPoints)
       => \E n \in 1..Len(myPointsElements(page)) : \E k \in 1..5 :
            FirstValidMatch(page, n, k, pointsInfo)
  /\ (Extracted /\ FastPath(page) = NullPoints /\ pointsInfo = NullPoints)
       => \A n \in 1..Len(myPointsElements(page)) : \A k \in 1..5 :
            StrategyValues(page, myPointsElements(page)[n])[k] = NullPoints

\* a structural result for which the order decided: a later strategy of the
\* same element gives another number
C32_Witness ==
  /\ Extracted
  /\ FastPath(page) = NullPoints
  /\ pointsInfo > 0
  /\ \E n \in 1..Len(myPointsElements(page)) : \E k \in 1..4 :
       /\ FirstValidMatch(page, n, k, pointsInfo)
       /\ \E j \in (k + 1)..5 :
            StrategyValues(page, myPointsElements(page)[n])[j]
              \notin {NullPoints, pointsInfo}

\* importWallet has left its loop and is about to print the final summary
AtSummary == pc = "loop" /\ i > Len(privateKeys)

\* C33: at the final summary the success count is the number of runs of the
\* batch that ended with points determined and status success written
C33_SuccessCountIsSuccessRuns ==
  AtSummary => successCount = Count(handled, "success")

\* C34: at the final summary the three counters add up to the number of keys
C34_CountersAddUp ==
  AtSummary => successCount + errorCount + skippedCount = Len(privateKeys)

\* a second batch of two keys, one skipped and one that ended in an error
C34_Witness ==
  /\ AtSummary
  /\ Len(privateKeys) = 2
  /\ skippedCount = 1
  /\ errorCount = 1

C36_UndeterminedRunWritesNothing ==
  /\ [](run.outcome = "undetermined" => Count(run.events, "save") = 0)
  /\ [][store' # store =>
          Count(run'.events, "save") = Count(run.events, "save") + 1]_vars

\* a run that found no points and raised nothing, for an address whose record
\* of an earlier batch says error
C36_Witness ==
  /\ RunEnded
  /\ run.outcome = "undetermined"
  /\ run.swallowed = Undefined
  /\ run.error = Undefined
  /\ db # "null"
  /\ store[run.address] # NoRecord
  /\ store[run.address].status = "error"

\* C37: from a loop state whose key has no success record (status error,
\* empty_balance, or no record at all), the step taken hands the key to
\* processWallet
C37_UnfinishedWalletProcessed ==
  [][(/\ pc = "loop"
      /\ i <= Len(privateKeys)
      /\ ~HasSuccessRecord(getAddressFromPrivateKey(privateKeys[i])))
     => (/\ pc' = "pw_launch"
         /\ run'.key = privateKeys[i]
         /\ skippedCount' = skippedCount)]_vars

\* the two lists hold the same keys the same number of times
IsPermutation(a, b) ==
  /\ Len(a) = Len(b)
  /\ \A key \in Keys : Count(a, key) = Count(b, key)

\* C38: every result of shuffleArray is a permutation of the loaded list, the
\* loop handles the keys of the shuffled list one after the other, and
\* importWallet ends only when every key of the list has been handled
C38_EveryLoadedKeyHandledOnce ==
  /\ [](\A loaded \in KeyLists : \A shuffled \in shuffleArray(loaded) :
          IsPermutation(shuffled, loaded))
  /\ [](pc = "loop" => Len(handled) = i - 1)
  /\ [][(pc = "loop" /\ pc' = "menu") => Len(handled) = Len(privateKeys)]_vars

\* C39: a call in which no input was filled ends at once, and a call in which
\* "Sign In" was not clicked never reaches the fund-wallet check, the wait
\* for "Points Earned:" or an acknowledgment click, and returns null
C39_NothingWithoutSignIn ==
  /\ [](flow.pc \notin {"idle", "fill", "returned"} => FlowClicked("fill"))
  /\ [](flow.pc \in {"fund wallet", "wait earned", "parse", "continue",
                     "skip", "done button"} => FlowClicked("Sign In"))
  /\ []((flow.pc = "returned" /\ ~FlowClicked("Sign In")) =>
          /\ flow.result = Return(NullPoints)
          /\ ~flow.fundDetected
          /\ ~flow.appeared
          /\ \A k \in 1..Len(flow.events) : AckRank(flow.events[k]) = 0)

\* the code was filled in, no "Sign In" control was found, nothing was
\* raised, and the call returned null
C39_Witness ==
  /\ flow.pc = "returned"
  /\ FlowClicked("fill")
  /\ ~FlowClicked("Sign In")
  /\ flow.caught = NoFlow.caught
  /\ flow.result = Return(NullPoints)
====
